---- MODULE Spec2Model ----
(***************************************************************************)
(* Model of the ink! staking contract of src/lib.rs.                       *)
(*                                                                         *)
(* The state is the contract storage (apy, stake_positions,                *)
(* staked_addresses),                                                      *)
(* the two host values the messages read (the block number and the         *)
(* contract's own balance, out of which stakes and rewards are paid), and  *)
(* last_call, the observable outcome of the most recent step: which        *)
(* message ran, for whom, what it returned, which events it emitted and    *)
(* how much value the host moved to the caller.                            *)
(*                                                                         *)
(* Messages run as the unit tests of src/lib.rs run them: one call at a    *)
(* time, each statement taking effect in order.  A message that returns    *)
(* Err keeps the storage writes it made before returning.  A message that  *)
(* panics (assert!, unwrap, panic!) aborts the call and none of its        *)
(* effects are kept.                                                       *)
(*                                                                         *)
(* Balance is u128 in the source; the model keeps the type's behaviour     *)
(* (checked arithmetic against a maximum) with the maximum BalanceMax.     *)
(***************************************************************************)
EXTENDS Integers, Sequences, FiniteSets, TLC

\* ----- bounds of the model
Accounts == {"alice", "bob"}
BalanceMax == 3
MaxAmount == 2
MaxBlock == 2
MaxAddresses == 3
Endowment == 1

VARIABLES apy, stake_positions, staked_addresses, block_number,
          contract_balance, last_call

vars == <<apy, stake_positions, staked_addresses, block_number,
          contract_balance, last_call>>

\* ----- values

\* Option::None of the checked arithmetic and of Iterator::position
None == -1

StakingPosition(amount, block) ==
    [stake_amount |-> amount, last_action_block |-> block]

Ok == [kind |-> "Ok", msg |-> ""]
Abort(m) == [kind |-> "Abort", msg |-> m]
UnstakeError(m) == [kind |-> "UnstakeError", msg |-> m]
ClaimingRewardError(m) == [kind |-> "ClaimingRewardError", msg |-> m]
Other(m) == [kind |-> "Other", msg |-> m]

\* the {:?} rendering of a StakingError
Debug(e) == e.kind \o "(\"" \o e.msg \o "\")"

Staked(u, a) == [event |-> "Staked", user |-> u, amount |-> a]
Unstaked(u, a) == [event |-> "Unstaked", user |-> u, amount |-> a]
Claimed(u, a) == [event |-> "Claimed", user |-> u, amount |-> a]

\* ----- primitives

\* mutant of checked_add: the sum wraps around
checked_add_wrapping(a, b) == (a + b) % (BalanceMax + 1)

checked_add(a, b) == IF a + b > BalanceMax THEN None ELSE a + b

checked_sub(a, b) == IF a < b THEN None ELSE a - b

\* Mapping::insert
insert(m, k, v) == [x \in DOMAIN m \cup {k} |-> IF x = k THEN v ELSE m[x]]

\* staked_addresses.iter().position(|x| *x == caller): first index, or None
position(list, caller) ==
    IF \E i \in 1..Len(list) : list[i] = caller
    THEN CHOOSE i \in 1..Len(list) :
            /\ list[i] = caller
            /\ \A j \in 1..(i - 1) : list[j] # caller
    ELSE None

\* Vec::contains
contains(list, x) == \E i \in 1..Len(list) : list[i] = x

\* Vec::remove(idx)
remove(list, idx) ==
    [i \in 1..(Len(list) - 1) |-> IF i < idx THEN list[i] ELSE list[i + 1]]

\* mutant of transfer_ok: the balance of the contract is not looked at
transfer_ok_any_balance(balance, value, host_ok) == host_ok

\* self.env().transfer(dest, value): Ok iff the host accepts the transfer
\* and the contract holds the value
transfer_ok(balance, value, host_ok) == host_ok /\ value <= balance

\* ----- queries

\* mutant of calculate_rewards: the reward grows with the stake
calculate_rewards_by_stake(staking_position, current_block) ==
    IF current_block <= staking_position.last_action_block
    THEN 0
    ELSE (current_block - staking_position.last_action_block)
         * staking_position.stake_amount

\* None stands for the panic of unwrap() on a failed checked_sub
calculate_rewards(staking_position, current_block) ==
    IF current_block <= staking_position.last_action_block
    THEN 0
    ELSE checked_sub(current_block, staking_position.last_action_block)

rewards_of(positions, user, current_block) ==
    IF user \in DOMAIN positions
    THEN calculate_rewards(positions[user], current_block)
    ELSE 0

rewards_for_user(user) == rewards_of(stake_positions, user, block_number)

get_account_stake(account) ==
    IF account \in DOMAIN stake_positions
    THEN stake_positions[account].stake_amount
    ELSE 0

\* ----- outcome of a call: the storage, the contract balance, the events
\* emitted, the value moved to the caller and the returned value

Outcome(positions, addresses, balance, events, paid, result) ==
    [positions |-> positions, addresses |-> addresses, balance |-> balance,
     events |-> events, paid |-> paid, result |-> result]

\* a call that panics: nothing of it is kept
Aborted(m) ==
    Outcome(stake_positions, staked_addresses, contract_balance, <<>>, 0,
            Abort(m))

NoCall == [op |-> "none", caller |-> "", amount |-> 0, reward |-> 0,
           events |-> <<>>, paid |-> 0, result |-> Ok]

Call(op, caller, amount, reward, o) ==
    [op |-> op, caller |-> caller, amount |-> amount, reward |-> reward,
     events |-> o.events, paid |-> o.paid, result |-> o.result]

Apply(op, caller, amount, o) ==
    /\ stake_positions' = o.positions
    /\ staked_addresses' = o.addresses
    /\ contract_balance' = o.balance
    /\ last_call' = Call(op, caller, amount, rewards_for_user(caller), o)
    /\ UNCHANGED <<apy, block_number>>

\* mutant of more_than_0: the assertion is missing
more_than_0_unchecked(amount) == TRUE

\* assert!(amount > 0, ..) of stake() and unstake()
more_than_0(amount) == amount > 0

\* ----- stake

\* mutant of stake_top_up: the transferred amount is not added
stake_top_up_not_added(staking_position, new_balance) ==
    StakingPosition(staking_position.stake_amount,
                    staking_position.last_action_block)

\* mutant of stake_top_up: the settlement block is reset to the current block
stake_top_up_resets(staking_position, new_balance) ==
    StakingPosition(new_balance, block_number)

\* the position stake() writes for a caller that has one
stake_top_up(staking_position, new_balance) ==
    StakingPosition(new_balance, staking_position.last_action_block)

\* self.staked_addresses.push(caller)
push(list, caller) == Append(list, caller)

\* balance: the contract balance with the transferred value already added
stake_outcome(positions, addresses, balance, caller, transferred_amount, now) ==
    IF ~more_than_0(transferred_amount)
    THEN Aborted("Must stake more than 0")
    ELSE IF caller \in DOMAIN positions
    THEN LET new_balance ==
                 checked_add(positions[caller].stake_amount, transferred_amount)
         IN  IF new_balance # None
             THEN Outcome(insert(positions, caller,
                                 stake_top_up(positions[caller], new_balance)),
                          push(addresses, caller), balance,
                          <<Staked(caller, transferred_amount)>>, 0, Ok)
             ELSE Outcome(positions, addresses, balance, <<>>, 0,
                          Other("Failed while adding balances"))
    ELSE Outcome(insert(positions, caller,
                        StakingPosition(transferred_amount, now)),
                 push(addresses, caller), balance,
                 <<Staked(caller, transferred_amount)>>, 0, Ok)

\* the call is left out where the list would grow beyond MaxAddresses
stake(caller, transferred_amount) ==
    LET o == stake_outcome(stake_positions, staked_addresses,
                           contract_balance + transferred_amount,
                           caller, transferred_amount, block_number)
    IN  /\ contract_balance + transferred_amount <= BalanceMax
        /\ Len(o.addresses) <= MaxAddresses
        /\ Apply("stake", caller, transferred_amount, o)

\* ----- claim_reward

\* mutant of settle: the settlement block is not advanced
settle_keeps_block(staking_position, now) ==
    StakingPosition(staking_position.stake_amount,
                    staking_position.last_action_block)

\* the position claim_reward() writes: same stake, settled at the current block
settle(staking_position, now) ==
    StakingPosition(staking_position.stake_amount, now)

\* mutant of claim_no_position: the missing position is not reported
claim_no_position_ok(positions, addresses, balance) ==
    Outcome(positions, addresses, balance, <<>>, 0, Ok)

\* the branch of claim_reward() for a caller without a position
claim_no_position(positions, addresses, balance) ==
    Outcome(positions, addresses, balance, <<>>, 0,
            ClaimingRewardError("user doesnt seem to have a stake"))

claim_outcome(positions, addresses, balance, caller, now, host_ok) ==
    LET reward == rewards_of(positions, caller, now) IN
    IF caller \in DOMAIN positions
    THEN LET settled == insert(positions, caller, settle(positions[caller], now))
         IN  IF reward > 0
             THEN IF ~transfer_ok(balance, reward, host_ok)
                  THEN Outcome(settled, addresses, balance, <<>>, 0,
                               ClaimingRewardError(
                                   "failed to transfer claimed reward to user"))
                  ELSE Outcome(settled, addresses, balance - reward,
                               <<Claimed(caller, reward)>>, reward, Ok)
             ELSE Outcome(settled, addresses, balance, <<>>, 0, Ok)
    ELSE claim_no_position(positions, addresses, balance)

claim_reward(caller, host_ok) ==
    Apply("claim_reward", caller, 0,
          claim_outcome(stake_positions, staked_addresses, contract_balance,
                        caller, block_number, host_ok))

\* ----- unstake

\* mutant of exceeds: the comparison with the staked amount is missing
exceeds_never(unstake_amount, user_stake) == FALSE

\* unstake_amount > user_stake.stake_amount
exceeds(unstake_amount, user_stake) == unstake_amount > user_stake.stake_amount

\* mutant of unstake_all: the nested claim_reward is not called
unstake_all_no_claim(positions, addresses, balance, caller, now, claim_ok) ==
    LET idx == position(addresses, caller) IN
    IF idx = None
    THEN Aborted("called Option::unwrap() on a None value")
    ELSE Outcome(positions, remove(addresses, idx), balance, <<>>, 0, Ok)

\* the rest_stake == 0 branch up to and including the nested claim_reward
unstake_all(positions, addresses, balance, caller, now, claim_ok) ==
    LET idx == position(addresses, caller) IN
    IF idx = None
    THEN Aborted("called Option::unwrap() on a None value")
    ELSE claim_outcome(positions, remove(addresses, idx), balance, caller,
                       now, claim_ok)

\* mutant of unstake_pay: the Unstaked event is not emitted
unstake_pay_no_event(o, caller, unstake_amount, rest_stake, now, host_ok) ==
    IF ~transfer_ok(o.balance, unstake_amount, host_ok)
    THEN Aborted("failed to transfer unstaked amount")
    ELSE Outcome(insert(o.positions, caller, StakingPosition(rest_stake, now)),
                 o.addresses, o.balance - unstake_amount, o.events,
                 o.paid + unstake_amount, Ok)

\* the transfer of the stake, the write of the position and the event
unstake_pay(o, caller, unstake_amount, rest_stake, now, host_ok) ==
    IF ~transfer_ok(o.balance, unstake_amount, host_ok)
    THEN Aborted("failed to transfer unstaked amount")
    ELSE Outcome(insert(o.positions, caller, StakingPosition(rest_stake, now)),
                 o.addresses, o.balance - unstake_amount,
                 o.events \o <<Unstaked(caller, unstake_amount)>>,
                 o.paid + unstake_amount, Ok)

unstake_outcome(positions, addresses, balance, caller, unstake_amount, now, claim_ok, host_ok) ==
    LET unchanged == Outcome(positions, addresses, balance, <<>>, 0, Ok) IN
    IF ~more_than_0(unstake_amount)
    THEN Aborted("Must unstake more than 0")
    ELSE IF caller \in DOMAIN positions
    THEN LET user_stake == positions[caller] IN
         IF exceeds(unstake_amount, user_stake)
         THEN [unchanged EXCEPT !.result = UnstakeError(
                  "unstake amount cannot be greater than staked amount")]
         ELSE LET rest_stake ==
                      checked_sub(user_stake.stake_amount, unstake_amount)
              IN  IF rest_stake # None
                  THEN IF rest_stake = 0
                       THEN LET c == unstake_all(positions, addresses, balance,
                                                 caller, now, claim_ok)
                            IN  IF c.result.kind = "Abort"
                                THEN c
                                ELSE IF c.result # Ok
                                THEN [c EXCEPT !.result = Other(
                                         "Failed to claim all the rewards after unstaking: "
                                         \o Debug(c.result))]
                                ELSE unstake_pay(c, caller, unstake_amount,
                                                 rest_stake, now, host_ok)
                       ELSE unstake_pay(unchanged, caller, unstake_amount,
                                        rest_stake, now, host_ok)
                  ELSE [unchanged EXCEPT !.result = Other(
                           "Overflow error while substractiong stakes")]
    ELSE [unchanged EXCEPT !.result = UnstakeError(
             "can only unstake if user has already staked")]

unstake(caller, unstake_amount, claim_ok, host_ok) ==
    Apply("unstake", caller, unstake_amount,
          unstake_outcome(stake_positions, staked_addresses, contract_balance,
                          caller, unstake_amount, block_number,
                          claim_ok, host_ok))

\* ----- the host

\* ink_env::test::advance_block
advance_block ==
    /\ block_number < MaxBlock
    /\ block_number' = block_number + 1
    /\ last_call' = NoCall
    /\ UNCHANGED <<apy, stake_positions, staked_addresses, contract_balance>>

\* ----- specification

\* Staking::new(1000), as in the tests: empty mapping, empty list
Init ==
    /\ apy = 1000
    /\ stake_positions = [a \in {} |-> StakingPosition(0, 0)]
    /\ staked_addresses = <<>>
    /\ block_number = 0
    /\ contract_balance = Endowment
    /\ last_call = NoCall

Next ==
    \/ \E caller \in Accounts, a \in 0..MaxAmount : stake(caller, a)
    \/ \E caller \in Accounts, a \in 0..BalanceMax,
          claim_ok \in BOOLEAN, host_ok \in BOOLEAN :
          unstake(caller, a, claim_ok, host_ok)
    \/ \E caller \in Accounts, host_ok \in BOOLEAN :
          claim_reward(caller, host_ok)
    \/ advance_block

Spec == Init /\ [][Next]_vars

\* ----- the accrual function on its own

\* the message rewards_for_user(user), a read-only query (&self)
rewards_for_user_query(user) ==
    LET r == rewards_for_user(user) IN
    /\ last_call' = [op |-> "rewards_for_user", caller |-> user, amount |-> 0,
                     reward |-> r, events |-> <<>>, paid |-> 0,
                     result |-> IF r = None
                                THEN Abort("called Option::unwrap() on a None value")
                                ELSE Ok]
    /\ UNCHANGED <<apy, stake_positions, staked_addresses, block_number,
                   contract_balance>>

\* the values of the constructor argument apy
Apys == {0, 1, 1000}

\* every StakingPosition within the bounds
Positions == [stake_amount : 0..BalanceMax, last_action_block : 0..MaxBlock]

\* the inputs of rewards_for_user: any rate, any block, any positions map,
\* a settlement block ahead of the current block included (the case
\* calculate_rewards guards with <=)
InitAccrual ==
    /\ apy \in Apys
    /\ stake_positions \in UNION {[D -> Positions] : D \in SUBSET Accounts}
    /\ staked_addresses = <<>>
    /\ block_number \in 0..MaxBlock
    /\ contract_balance = Endowment
    /\ last_call = NoCall

NextAccrual == \E user \in Accounts : rewards_for_user_query(user)

SpecAccrual == InitAccrual /\ [][NextAccrual]_vars

TypeOK ==
    /\ apy \in Nat
    /\ DOMAIN stake_positions \subseteq Accounts
    /\ \A a \in DOMAIN stake_positions :
          /\ stake_positions[a].stake_amount \in 0..BalanceMax
          /\ stake_positions[a].last_action_block \in 0..MaxBlock
    /\ staked_addresses \in Seq(Accounts)
    /\ Len(staked_addresses) <= MaxAddresses
    /\ block_number \in 0..MaxBlock
    /\ contract_balance \in 0..BalanceMax

\* ----- properties

\* the step is a call of message op by caller c
Called(op, c) == last_call'.op = op /\ last_call'.caller = c

\* the most recent step was a call of message op that returned Ok
Returned(op) == last_call.op = op /\ last_call.result = Ok

HasStake(a) == a \in DOMAIN stake_positions /\ stake_positions[a].stake_amount > 0

EventKinds(events) == {events[i].event : i \in 1..Len(events)}

\* C1: an identity is in the active list staked_addresses if and only if it
\* has a position in stake_positions with stake_amount > 0.
C1_ActiveSetConsistency ==
    \A a \in Accounts : contains(staked_addresses, a) <=> HasStake(a)

\* C2: every identity occurs at most once in the active list
\* staked_addresses, also after top-up deposits by the same caller.
C2_ActiveSetUniqueness ==
    \A i, j \in 1..Len(staked_addresses) :
        i # j => staked_addresses[i] # staked_addresses[j]

\* C3: a stake call that returns Ok with transferred amount a > 0 raises
\* get_account_stake(caller) by exactly a and leaves the stake of every
\* other identity unchanged.
C3_DepositExactness ==
    [][\A c \in Accounts :
          (Called("stake", c) /\ last_call'.result = Ok)
          => /\ last_call'.amount > 0
             /\ get_account_stake(c)' = get_account_stake(c) + last_call'.amount
             /\ \A o \in Accounts \ {c} :
                   get_account_stake(o)' = get_account_stake(o)]_vars

\* C3 witness: a top-up deposit has returned Ok while another identity
\* holds stake.
C3_Witness ==
    /\ Returned("stake")
    /\ get_account_stake(last_call.caller) > last_call.amount
    /\ \E o \in Accounts \ {last_call.caller} : HasStake(o)

\* C4: an unstake that returns Ok with amount equal to the caller's current
\* stake leaves get_account_stake(caller) = 0 and the caller outside the
\* active list, whatever the caller's earlier deposits were.
C4_FullUnstakeEmpties ==
    [][\A c \in Accounts :
          (/\ Called("unstake", c)
           /\ last_call'.result = Ok
           /\ last_call'.amount = get_account_stake(c))
          => /\ get_account_stake(c)' = 0
             /\ ~contains(staked_addresses', c)]_vars

\* C5: a full unstake that returns Ok at a time where
\* rewards_for_user(caller) = r moves r + amount from the contract to the
\* caller in that call, emits Claimed{caller, r} before
\* Unstaked{caller, amount} when r > 0 and no Claimed when r = 0, and
\* leaves rewards_for_user(caller) = 0.
C5_FullUnstakeSettles ==
    [][\A c \in Accounts :
          (/\ Called("unstake", c)
           /\ last_call'.result = Ok
           /\ last_call'.amount = get_account_stake(c))
          => LET r == rewards_for_user(c) IN
             /\ last_call'.paid = r + last_call'.amount
             /\ contract_balance' = contract_balance - (r + last_call'.amount)
             /\ last_call'.events =
                   IF r > 0
                   THEN <<Claimed(c, r), Unstaked(c, last_call'.amount)>>
                   ELSE <<Unstaked(c, last_call'.amount)>>
             /\ rewards_for_user(c)' = 0]_vars

\* C5 witness: a full unstake has returned Ok after paying a positive
\* reward together with the stake.
C5_Witness ==
    /\ Returned("unstake")
    /\ get_account_stake(last_call.caller) = 0
    /\ last_call.reward > 0
    /\ last_call.paid = last_call.reward + last_call.amount
    /\ Len(last_call.events) = 2

\* C6: an unstake that returns Ok with 0 < amount < stake of the caller
\* leaves the caller in the active list, reduces get_account_stake(caller)
\* by exactly amount, transfers only amount to the caller and emits no
\* Claimed event.
C6_PartialUnstake ==
    [][\A c \in Accounts :
          (/\ Called("unstake", c)
           /\ last_call'.result = Ok
           /\ 0 < last_call'.amount
           /\ last_call'.amount < get_account_stake(c))
          => /\ contains(staked_addresses', c)
             /\ get_account_stake(c)' = get_account_stake(c) - last_call'.amount
             /\ last_call'.paid = last_call'.amount
             /\ contract_balance' = contract_balance - last_call'.amount
             /\ "Claimed" \notin EventKinds(last_call'.events)]_vars

\* C7: unstake(amount) by a caller with a position and amount > stake_amount
\* returns UnstakeError("unstake amount cannot be greater than staked
\* amount"), leaves the positions map, the active list and the contract's
\* balance unchanged and emits no event.
C7_OverWithdrawalRejected ==
    [][\A c \in Accounts :
          (/\ Called("unstake", c)
           /\ c \in DOMAIN stake_positions
           /\ last_call'.amount > stake_positions[c].stake_amount)
          => /\ last_call'.result = UnstakeError(
                    "unstake amount cannot be greater than staked amount")
             /\ UNCHANGED <<stake_positions, staked_addresses,
                            contract_balance>>
             /\ last_call'.events = <<>>
             /\ last_call'.paid = 0]_vars

\* C7 witness: a caller holding stake has asked for more than the stake and
\* got the over-withdrawal error.
C7_Witness ==
    /\ last_call.op = "unstake"
    /\ HasStake(last_call.caller)
    /\ last_call.amount > get_account_stake(last_call.caller)
    /\ last_call.result.kind = "UnstakeError"

\* C8: unstake(amount) with amount > 0 by a caller that has no position, or
\* whose balance is zero, returns UnstakeError("can only unstake if user has
\* already staked") and changes no state.
C8_UnstakeWithoutStake ==
    [][\A c \in Accounts :
          (/\ Called("unstake", c)
           /\ last_call'.amount > 0
           /\ get_account_stake(c) = 0)
          => /\ last_call'.result = UnstakeError(
                    "can only unstake if user has already staked")
             /\ UNCHANGED <<stake_positions, staked_addresses,
                            contract_balance>>]_vars

\* C9: claim_reward by a caller that has no position returns
\* ClaimingRewardError, transfers no value, emits no event and leaves the
\* positions map and the active list unchanged.
C9_ClaimWithoutPosition ==
    [][\A c \in Accounts :
          (Called("claim_reward", c) /\ c \notin DOMAIN stake_positions)
          => /\ last_call'.result.kind = "ClaimingRewardError"
             /\ last_call'.paid = 0
             /\ contract_balance' = contract_balance
             /\ last_call'.events = <<>>
             /\ UNCHANGED <<stake_positions, staked_addresses>>]_vars

\* C9 witness: an identity without a position has called claim_reward while
\* another identity holds stake with reward accrued.
C9_Witness ==
    /\ last_call.op = "claim_reward"
    /\ last_call.caller \notin DOMAIN stake_positions
    /\ last_call.result.kind = "ClaimingRewardError"
    /\ \E o \in Accounts : HasStake(o) /\ rewards_for_user(o) > 0

\* C10: a claim_reward that returns Ok for a caller with a position, at a
\* time where rewards_for_user(caller) = r, transfers exactly r to the
\* caller, leaves stake_amount and the active list unchanged, sets
\* last_action_block to the current block even when r = 0 (so
\* rewards_for_user(caller) is 0 right after), and emits Claimed{caller, r}
\* if and only if r > 0.
C10_ClaimSettlement ==
    [][\A c \in Accounts :
          (/\ Called("claim_reward", c)
           /\ last_call'.result = Ok
           /\ c \in DOMAIN stake_positions)
          => LET r == rewards_for_user(c) IN
             /\ last_call'.paid = r
             /\ contract_balance' = contract_balance - r
             /\ c \in DOMAIN stake_positions'
             /\ stake_positions'[c].stake_amount =
                   stake_positions[c].stake_amount
             /\ stake_positions'[c].last_action_block = block_number
             /\ \A o \in Accounts \ {c} :
                   /\ (o \in DOMAIN stake_positions') =
                         (o \in DOMAIN stake_positions)
                   /\ o \in DOMAIN stake_positions
                         => stake_positions'[o] = stake_positions[o]
             /\ staked_addresses' = staked_addresses
             /\ rewards_for_user(c)' = 0
             /\ last_call'.events =
                   IF r > 0 THEN <<Claimed(c, r)>> ELSE <<>>]_vars

\* C10 witness: a claim has paid a positive reward and returned Ok.
C10_Witness ==
    /\ Returned("claim_reward")
    /\ last_call.reward > 0
    /\ last_call.paid = last_call.reward
    /\ last_call.events = <<Claimed(last_call.caller, last_call.reward)>>
    /\ stake_positions[last_call.caller].last_action_block = block_number

\* C10 witness for the case r = 0: a claim in the block of the previous
\* settlement has returned Ok without a transfer, at a block later than 0.
C10_ZeroWitness ==
    /\ Returned("claim_reward")
    /\ last_call.caller \in DOMAIN stake_positions
    /\ last_call.reward = 0
    /\ last_call.paid = 0
    /\ block_number > 0

\* C11: an identity whose stake_amount is 0 is treated as absent for
\* rewards: rewards_for_user of it is 0, and claim_reward by it returns
\* ClaimingRewardError and transfers no reward.
C11_ZeroStakeIsAbsent ==
    \A a \in DOMAIN stake_positions :
        stake_positions[a].stake_amount = 0
        => /\ rewards_for_user(a) = 0
           /\ (last_call.op = "claim_reward" /\ last_call.caller = a)
              => /\ last_call.result.kind = "ClaimingRewardError"
                 /\ last_call.paid = 0

\* C12: rewards_for_user returns current block - last_action_block when the
\* current block is later than last_action_block and 0 otherwise, whatever
\* stake_amount and apy are; it returns 0 for an identity without a
\* position; it never aborts and changes no state.
C12_AccrualFormula ==
    [][\A u \in Accounts :
          Called("rewards_for_user", u)
          => /\ last_call'.result = Ok
             /\ last_call'.reward =
                   IF u \in DOMAIN stake_positions
                   THEN IF block_number > stake_positions[u].last_action_block
                        THEN block_number - stake_positions[u].last_action_block
                        ELSE 0
                   ELSE 0
             /\ UNCHANGED <<apy, stake_positions, staked_addresses,
                            block_number, contract_balance>>]_vars

\* C12 witness: the query has returned 2 for a position of stake 1 under
\* rate 0.
C12_Witness ==
    /\ last_call.op = "rewards_for_user"
    /\ last_call.caller \in DOMAIN stake_positions
    /\ last_call.reward = 2
    /\ stake_positions[last_call.caller].stake_amount = 1
    /\ apy = 0

\* C12 witness for the clock behind the settlement block: the query has
\* returned 0 for a position settled after the current block.
C12_BackwardWitness ==
    /\ last_call.op = "rewards_for_user"
    /\ last_call.caller \in DOMAIN stake_positions
    /\ stake_positions[last_call.caller].last_action_block > block_number
    /\ last_call.reward = 0

\* C13: stake with transferred amount 0 and unstake(0) abort in every state
\* and for every caller (no Ok or Err is returned), and the positions map,
\* the active list and the balances are the same after the abort as before
\* the call.
C13_FatalPreconditions ==
    [][\A c \in Accounts :
          ((Called("stake", c) \/ Called("unstake", c))
           /\ last_call'.amount = 0)
          => /\ last_call'.result.kind = "Abort"
             /\ UNCHANGED <<apy, stake_positions, staked_addresses,
                            contract_balance, block_number>>
             /\ last_call'.paid = 0
             /\ last_call'.events = <<>>]_vars

\* C13 witness: unstake(0) by a caller that holds stake has aborted.
C13_Witness ==
    /\ last_call.op = "unstake"
    /\ last_call.amount = 0
    /\ last_call.result.kind = "Abort"
    /\ HasStake(last_call.caller)

\* C13 witness for stake: a deposit of 0 by a caller that holds stake has
\* aborted.
C13_StakeWitness ==
    /\ last_call.op = "stake"
    /\ last_call.amount = 0
    /\ last_call.result.kind = "Abort"
    /\ HasStake(last_call.caller)

\* C14: a deposit by a caller with a position for which stake_amount +
\* amount exceeds the maximum Balance returns an Other error, does not wrap
\* around, leaves the position and the active list unchanged and emits no
\* Staked event.
C14_DepositOverflow ==
    [][\A c \in Accounts :
          (/\ Called("stake", c)
           /\ c \in DOMAIN stake_positions
           /\ stake_positions[c].stake_amount + last_call'.amount > BalanceMax)
          => /\ last_call'.result.kind = "Other"
             /\ UNCHANGED <<stake_positions, staked_addresses>>
             /\ "Staked" \notin EventKinds(last_call'.events)]_vars

\* C14 witness: a deposit that would exceed the maximum Balance has returned
\* the Other error.
C14_Witness ==
    /\ last_call.op = "stake"
    /\ last_call.result = Other("Failed while adding balances")
    /\ get_account_stake(last_call.caller) + last_call.amount > BalanceMax
    /\ last_call.amount > 0

\* the value claim_reward returns when the host transfer of the reward fails
ClaimTransferFailed ==
    ClaimingRewardError("failed to transfer claimed reward to user")

\* the value unstake returns when the nested claim_reward fails that way
UnstakeClaimFailed ==
    Other("Failed to claim all the rewards after unstaking: "
          \o Debug(ClaimTransferFailed))

\* the number of events of one kind among events
CountKind(events, kind) ==
    Cardinality({i \in 1..Len(events) : events[i].event = kind})

\* C15: a full unstake whose nested claim_reward fails (reward > 0 and the
\* host reward transfer fails) returns an Other error wrapping the claim
\* failure, transfers no stake, emits no Unstaked event and leaves the
\* caller's stake_amount and the active list exactly as before the call, so
\* the caller with stake_amount > 0 is still in the active list.
C15_FailedFullUnstakeNoEffect ==
    [][\A c \in Accounts :
          (/\ Called("unstake", c)
           /\ last_call'.amount = get_account_stake(c)
           /\ last_call'.result.kind = "Other")
          => /\ last_call'.result = UnstakeClaimFailed
             /\ last_call'.paid = 0
             /\ contract_balance' = contract_balance
             /\ "Unstaked" \notin EventKinds(last_call'.events)
             /\ get_account_stake(c)' = get_account_stake(c)
             /\ staked_addresses' = staked_addresses
             /\ contains(staked_addresses', c)]_vars

\* C16: claim_reward with reward > 0 whose host transfer fails returns
\* ClaimingRewardError, moves no value, emits no Claimed event and leaves
\* stake_amount unchanged, but has advanced the position's last_action_block
\* to the current block; the transfer fails whenever the reward exceeds the
\* balance of the contract.
C16_ClaimTransferFails ==
    [][\A c \in Accounts :
          (/\ Called("claim_reward", c)
           /\ c \in DOMAIN stake_positions
           /\ rewards_for_user(c) > 0)
          => /\ rewards_for_user(c) > contract_balance
                => last_call'.result = ClaimTransferFailed
             /\ last_call'.result # Ok
                => /\ last_call'.result = ClaimTransferFailed
                   /\ last_call'.paid = 0
                   /\ contract_balance' = contract_balance
                   /\ last_call'.events = <<>>
                   /\ stake_positions'[c].stake_amount =
                         stake_positions[c].stake_amount
                   /\ stake_positions'[c].last_action_block = block_number
                   /\ rewards_for_user(c)' = 0]_vars

\* C16 witness: a claim of a reward larger than the contract's balance has
\* returned the transfer error and the position is settled at the current
\* block.
C16_Witness ==
    /\ last_call.op = "claim_reward"
    /\ last_call.result = ClaimTransferFailed
    /\ last_call.reward > contract_balance
    /\ stake_positions[last_call.caller].last_action_block = block_number
    /\ HasStake(last_call.caller)

\* C17: a stake call that returns Ok emits exactly one
\* Staked{caller, transferred amount}; an unstake call that returns Ok emits
\* exactly one Unstaked{caller, amount}; a call that returns an error or
\* aborts emits no Staked and no Unstaked event; no call emits the same kind
\* of event more than once.
C17_EventDiscipline ==
    LET ev == last_call.events IN
    /\ Returned("stake")
       => /\ ev = <<Staked(last_call.caller, last_call.amount)>>
    /\ Returned("unstake")
       => /\ CountKind(ev, "Unstaked") = 1
          /\ \E i \in 1..Len(ev) :
                ev[i] = Unstaked(last_call.caller, last_call.amount)
          /\ CountKind(ev, "Staked") = 0
    /\ last_call.result # Ok
       => CountKind(ev, "Staked") = 0 /\ CountKind(ev, "Unstaked") = 0
    /\ \A k \in {"Staked", "Unstaked", "Claimed"} : CountKind(ev, k) <= 1

\* C17 witness: an unstake has returned Ok with a Claimed and an Unstaked
\* event.
C17_Witness ==
    /\ Returned("unstake")
    /\ Len(last_call.events) = 2
    /\ last_call.events[2] = Unstaked(last_call.caller, last_call.amount)

\* C18: a stake that returns Ok for a caller that has a position with
\* stake_amount > 0 leaves that position's last_action_block unchanged, so
\* rewards_for_user(caller) is the same right before and right after the
\* deposit.
C18_TopUpKeepsClock ==
    [][\A c \in Accounts :
          (Called("stake", c) /\ last_call'.result = Ok /\ HasStake(c))
          => /\ stake_positions'[c].last_action_block =
                   stake_positions[c].last_action_block
             /\ rewards_for_user(c)' = rewards_for_user(c)]_vars

\* C18 witness: a top-up has returned Ok in a block later than the
\* position's settlement block.
C18_Witness ==
    /\ Returned("stake")
    /\ get_account_stake(last_call.caller) > last_call.amount
    /\ stake_positions[last_call.caller].last_action_block < block_number
    /\ last_call.reward > 0

\* C19: a deposit at block t by a caller whose stake is 0 (never deposited,
\* or fully withdrawn earlier) yields a position with last_action_block = t,
\* so rewards_for_user(caller) is 0 right after the deposit.
C19_FreshAccrualPeriod ==
    [][\A c \in Accounts :
          (/\ Called("stake", c)
           /\ last_call'.result = Ok
           /\ get_account_stake(c) = 0)
          => /\ stake_positions'[c].last_action_block = block_number
             /\ rewards_for_user(c)' = 0]_vars

\* the reward the host moved to identity a in the step
RewardPaid(a) ==
    IF last_call'.caller # a THEN 0
    ELSE IF last_call'.op = "claim_reward" THEN last_call'.paid
    ELSE IF last_call'.op = "unstake" /\ last_call'.result = Ok
    THEN last_call'.paid - last_call'.amount
    ELSE 0

\* C20: no reward is lost while a participant holds stake > 0 and every host
\* transfer succeeds: the reward transferred to the participant plus
\* rewards_for_user(participant) equals the time elapsed since the stake
\* began.  Stated per step: over every step that keeps the stake > 0 and
\* fails no transfer, reward paid plus the change of rewards_for_user equals
\* the number of blocks the step advances; in particular a partial unstake
\* does not reduce the reward owed.
C20_NoRewardLost ==
    [][\A a \in Accounts :
          (/\ HasStake(a)
           /\ HasStake(a)'
           /\ last_call'.result \notin {ClaimTransferFailed, UnstakeClaimFailed})
          => RewardPaid(a) + rewards_for_user(a)' - rewards_for_user(a)
                = block_number' - block_number]_vars

\* the outcome of unstake when the lookup of the caller in staked_addresses
\* finds nothing and unwrap() panics
UnwrapPanicked == Abort("called Option::unwrap() on a None value")

\* C21: in every reachable state, states reached after calls that returned
\* an error included, a caller with stake_amount > 0 has at least one entry
\* in staked_addresses, so the index search followed by unwrap in the
\* full-unstake branch always finds the caller: no unstake aborts on the
\* lookup.
C21_LookupNeverAborts ==
    /\ \A a \in Accounts : HasStake(a) => contains(staked_addresses, a)
    /\ ~(last_call.op = "unstake" /\ last_call.result = UnwrapPanicked)

====
